---- MODULE Spec2Model ----
(***************************************************************************)
(* Search and pagination over URL search params (chapter 10):              *)
(*   - the Search component (debounced handleSearch, router.replace),      *)
(*   - the Pagination component (createPageURL, arrows, page numbers),     *)
(*   - generatePagination,                                                 *)
(*   - the Page server component and the two data fetching functions.      *)
(* The URL is the single source of truth: it is kept as a string (a        *)
(* sequence of character tokens) and every read goes through the           *)
(* URLSearchParams parser, every write through its serializer.             *)
(***************************************************************************)
EXTENDS Integers, Sequences, FiniteSets, TLC

VARIABLES
    url,        \* the address bar: pathname [ "?" search ], a sequence of tokens
    matched,    \* number of rows the WHERE clause matches for the URL's query
    input,      \* current text of the (uncontrolled) search <input>
    timer,      \* the debounced handleSearch: pending call and time left
    sinceKey,   \* ms elapsed since the last onChange (observer)
    burstKeys,  \* onChange events in the current burst (observer)
    runs,       \* executions of handleSearch for the current burst (observer)
    ranTerm,    \* the term handleSearch last executed with (observer)
    target,     \* the page number of the last URL built (observer)
    lastOp      \* the last event handled (observer)

vars == <<url, matched, input, timer, sinceKey, burstKeys, runs, ranTerm,
          target, lastOp>>

----------------------------------------------------------------------------
(* Program constants *)

ITEMS_PER_PAGE == 6
DebounceWait == 300

----------------------------------------------------------------------------
(* Bounds of the model *)

MaxRows == 49
MaxBurst == 2

\* Values the user may leave in the search box (strings as token sequences).
Terms == { <<>>, <<"a">>, <<"a", " ", "b">>, <<"a", "&", "b", "=">> }

\* Sizes of the result a new search may match: nothing, one row, a full
\* page, one row more than a page, many pages.
ResultSizes == {0, 1, ITEMS_PER_PAGE, ITEMS_PER_PAGE + 1, MaxRows}

\* Amounts of time that may pass between two events, in ms.
Delays == {150, 300}

----------------------------------------------------------------------------
(* Strings *)

Min(a, b) == IF a <= b THEN a ELSE b

\* First position of token c in s, 0 when absent.
IndexOf(s, c) ==
    IF \E i \in 1..Len(s) : s[i] = c
    THEN CHOOSE i \in 1..Len(s) : s[i] = c /\ \A j \in 1..(i - 1) : s[j] # c
    ELSE 0

RECURSIVE Split(_, _)
Split(s, sep) ==
    LET i == IndexOf(s, sep)
    IN  IF i = 0 THEN <<s>>
        ELSE <<SubSeq(s, 1, i - 1)>> \o Split(SubSeq(s, i + 1, Len(s)), sep)

RECURSIVE Join(_, _)
Join(parts, sep) ==
    IF Len(parts) = 0 THEN <<>>
    ELSE IF Len(parts) = 1 THEN parts[1]
    ELSE parts[1] \o <<sep>> \o Join(Tail(parts), sep)

Digits == <<"0", "1", "2", "3", "4", "5", "6", "7", "8", "9">>

\* Number.prototype.toString for a non-negative integer.
RECURSIVE toString(_)
toString(n) ==
    IF n < 10 THEN <<Digits[n + 1]>>
    ELSE toString(n \div 10) \o <<Digits[(n % 10) + 1]>>

NaN == -1

RECURSIVE Trim(_)
Trim(s) ==
    IF s = <<>> THEN s
    ELSE IF Head(s) = " " THEN Trim(Tail(s))
    ELSE IF s[Len(s)] = " " THEN Trim(SubSeq(s, 1, Len(s) - 1))
    ELSE s

RECURSIVE DecimalValue(_)
DecimalValue(s) ==
    IF s = <<>> THEN 0
    ELSE 10 * DecimalValue(SubSeq(s, 1, Len(s) - 1))
         + (IndexOf(Digits, s[Len(s)]) - 1)

\* Number(string): whitespace is trimmed, "" is 0, a run of digits is its
\* value, anything else over the model's alphabet is NaN.
Number(s) ==
    LET t == Trim(s)
    IN  IF \A i \in 1..Len(t) : IndexOf(Digits, t[i]) # 0
        THEN DecimalValue(t)
        ELSE NaN

----------------------------------------------------------------------------
(* URLSearchParams: a list of <<name, value>> pairs.  Percent escapes are  *)
(* kept as single tokens ("%26"), so a serialized string is a sequence of  *)
(* tokens in which "&" and "=" are separators.                             *)

EncodeChar(c) ==
    CASE c = " " -> "+"
      [] c = "&" -> "%26"
      [] c = "=" -> "%3D"
      [] c = "+" -> "%2B"
      [] c = "%" -> "%25"
      [] c = "?" -> "%3F"
      [] OTHER   -> c

DecodeChar(c) ==
    CASE c = "+"   -> " "
      [] c = "%26" -> "&"
      [] c = "%3D" -> "="
      [] c = "%2B" -> "+"
      [] c = "%25" -> "%"
      [] c = "%3F" -> "?"
      [] OTHER     -> c

Encode(s) == [i \in 1..Len(s) |-> EncodeChar(s[i])]
Decode(s) == [i \in 1..Len(s) |-> DecodeChar(s[i])]

ParsePair(piece) ==
    LET i == IndexOf(piece, "=")
    IN  IF i = 0 THEN <<Decode(piece), <<>>>>
        ELSE <<Decode(SubSeq(piece, 1, i - 1)),
               Decode(SubSeq(piece, i + 1, Len(piece)))>>

\* new URLSearchParams(string)
ParseParams(search) ==
    LET pieces == SelectSeq(Split(search, "&"), LAMBDA p : p # <<>>)
    IN  [i \in 1..Len(pieces) |-> ParsePair(pieces[i])]

\* params.toString()
ParamsToString(params) ==
    Join([i \in 1..Len(params) |->
            Encode(params[i][1]) \o <<"=">> \o Encode(params[i][2])], "&")

ParamsHas(params, name) == \E i \in 1..Len(params) : params[i][1] = name

Null == <<"null">>

\* params.get(name): the first value under name, or null.
ParamsGet(params, name) ==
    IF ParamsHas(params, name)
    THEN params[CHOOSE i \in 1..Len(params) :
                  /\ params[i][1] = name
                  /\ \A j \in 1..(i - 1) : params[j][1] # name][2]
    ELSE Null

\* params.delete(name)
ParamsDelete(params, name) == SelectSeq(params, LAMBDA p : p[1] # name)

\* params.set(name, value): the first pair under name takes the value and
\* the others are removed; appended when there is none.
ParamsSet(params, name, value) ==
    IF ParamsHas(params, name)
    THEN LET first == CHOOSE i \in 1..Len(params) :
                         /\ params[i][1] = name
                         /\ \A j \in 1..(i - 1) : params[j][1] # name
         IN  SubSeq(params, 1, first - 1) \o <<<<name, value>>>>
             \o ParamsDelete(SubSeq(params, first + 1, Len(params)), name)
    ELSE Append(params, <<name, value>>)

----------------------------------------------------------------------------
(* The hooks, read from a URL *)

PathnameOf(u) ==
    LET i == IndexOf(u, "?")
    IN  IF i = 0 THEN u ELSE SubSeq(u, 1, i - 1)

SearchParamsOf(u) ==
    LET i == IndexOf(u, "?")
    IN  IF i = 0 THEN <<>> ELSE ParseParams(SubSeq(u, i + 1, Len(u)))

\* searchParams?.query || ''
QueryOf(u) ==
    IF ParamsHas(SearchParamsOf(u), <<"query">>)
    THEN ParamsGet(SearchParamsOf(u), <<"query">>)
    ELSE <<>>

\* Number(searchParams.get('page')) || 1   (Number(null) is 0)
CurrentPageOf(u) ==
    LET v == ParamsGet(SearchParamsOf(u), <<"page">>)
        n == IF v = Null THEN 0 ELSE Number(v)
    IN  IF n = NaN \/ n = 0 THEN 1 ELSE n

usePathname == PathnameOf(url)
useSearchParams == SearchParamsOf(url)
query == QueryOf(url)
currentPage == CurrentPageOf(url)

----------------------------------------------------------------------------
(* app/lib/data.ts *)

\* The rows the WHERE clause selects, in ORDER BY order, named by rank.
MatchingRows == [i \in 1..matched |-> i]

\* Math.ceil(n / d) for n >= 0, d > 0
MathCeil(n, d) == (n \div d) + (IF n % d = 0 THEN 0 ELSE 1)

\* Variant: the page count rounded down.
fetchInvoicesPages_floor == matched \div ITEMS_PER_PAGE

fetchInvoicesPages == MathCeil(matched, ITEMS_PER_PAGE)

fetchFilteredInvoices(page) ==
    LET offset == (page - 1) * ITEMS_PER_PAGE
    IN  IF offset >= matched THEN <<>>
        ELSE SubSeq(MatchingRows, offset + 1,
                    Min(offset + ITEMS_PER_PAGE, matched))

totalPages == fetchInvoicesPages

----------------------------------------------------------------------------
(* app/lib/utils.ts *)

Num(n) == [tag |-> "number", val |-> n]
Ellipsis == [tag |-> "...", val |-> 0]

\* Variant: the first-pages case taken for cur < 3 only.
generatePagination_startLt3(cur, total) ==
    IF total <= 7 THEN [i \in 1..total |-> Num(i)]
    ELSE IF cur < 3
    THEN <<Num(1), Num(2), Num(3), Ellipsis, Num(total - 1), Num(total)>>
    ELSE IF cur >= total - 2
    THEN <<Num(1), Num(2), Ellipsis, Num(total - 2), Num(total - 1), Num(total)>>
    ELSE <<Num(1), Ellipsis, Num(cur - 1), Num(cur), Num(cur + 1), Ellipsis,
           Num(total)>>

\* Variant: the last-pages window shifted down by one.
generatePagination_endShifted(cur, total) ==
    IF total <= 7 THEN [i \in 1..total |-> Num(i)]
    ELSE IF cur <= 3
    THEN <<Num(1), Num(2), Num(3), Ellipsis, Num(total - 1), Num(total)>>
    ELSE IF cur >= total - 2
    THEN <<Num(1), Num(2), Ellipsis, Num(total - 3), Num(total - 2), Num(total - 1)>>
    ELSE <<Num(1), Ellipsis, Num(cur - 1), Num(cur), Num(cur + 1), Ellipsis,
           Num(total)>>

\* Variant: every page shown up to 8 pages instead of 7.
generatePagination_showAll8(cur, total) ==
    IF total <= 8 THEN [i \in 1..total |-> Num(i)]
    ELSE IF cur <= 3
    THEN <<Num(1), Num(2), Num(3), Ellipsis, Num(total - 1), Num(total)>>
    ELSE IF cur >= total - 2
    THEN <<Num(1), Num(2), Ellipsis, Num(total - 2), Num(total - 1), Num(total)>>
    ELSE <<Num(1), Ellipsis, Num(cur - 1), Num(cur), Num(cur + 1), Ellipsis,
           Num(total)>>

\* Variant: the first-pages case taken for cur < 2 only.
generatePagination_startLt2(cur, total) ==
    IF total <= 7 THEN [i \in 1..total |-> Num(i)]
    ELSE IF cur < 2
    THEN <<Num(1), Num(2), Num(3), Ellipsis, Num(total - 1), Num(total)>>
    ELSE IF cur >= total - 2
    THEN <<Num(1), Num(2), Ellipsis, Num(total - 2), Num(total - 1), Num(total)>>
    ELSE <<Num(1), Ellipsis, Num(cur - 1), Num(cur), Num(cur + 1), Ellipsis,
           Num(total)>>

\* Variant: the last-pages case taken from total - 3 on.
generatePagination_endFrom3(cur, total) ==
    IF total <= 7 THEN [i \in 1..total |-> Num(i)]
    ELSE IF cur <= 3
    THEN <<Num(1), Num(2), Num(3), Ellipsis, Num(total - 1), Num(total)>>
    ELSE IF cur >= total - 3
    THEN <<Num(1), Num(2), Ellipsis, Num(total - 2), Num(total - 1), Num(total)>>
    ELSE <<Num(1), Ellipsis, Num(cur - 1), Num(cur), Num(cur + 1), Ellipsis,
           Num(total)>>

generatePagination(cur, total) ==
    IF total <= 7 THEN [i \in 1..total |-> Num(i)]
    ELSE IF cur <= 3
    THEN <<Num(1), Num(2), Num(3), Ellipsis, Num(total - 1), Num(total)>>
    ELSE IF cur >= total - 2
    THEN <<Num(1), Num(2), Ellipsis, Num(total - 2), Num(total - 1), Num(total)>>
    ELSE <<Num(1), Ellipsis, Num(cur - 1), Num(cur), Num(cur + 1), Ellipsis,
           Num(total)>>

----------------------------------------------------------------------------
(* app/ui/invoices/pagination.tsx *)

\* Variant: the params built from scratch instead of from the current ones.
createPageURL_fresh(pageNumber) ==
    LET params == ParamsSet(<<>>, <<"page">>, toString(pageNumber))
    IN  usePathname \o <<"?">> \o ParamsToString(params)

createPageURL(pageNumber) ==
    LET params == ParamsSet(useSearchParams, <<"page">>, toString(pageNumber))
    IN  usePathname \o <<"?">> \o ParamsToString(params)

allPages == generatePagination(currentPage, totalPages)

isActive(cur, page) == page.tag = "number" /\ page.val = cur

PreviousDisabled == currentPage <= 1

\* Variant: the next arrow disabled only past the last page.
NextDisabled_past == currentPage > totalPages

NextDisabled == currentPage >= totalPages

----------------------------------------------------------------------------
(* app/ui/search.tsx *)

\* Variant: handleSearch without the reset of page.
handleSearch_noReset(term) ==
    LET params2 == IF term # <<>>
                   THEN ParamsSet(useSearchParams, <<"query">>, term)
                   ELSE ParamsDelete(useSearchParams, <<"query">>)
    IN  usePathname \o <<"?">> \o ParamsToString(params2)

\* The body of handleSearch: the URL handed to replace().
handleSearch(term) ==
    LET params1 == ParamsSet(useSearchParams, <<"page">>, <<"1">>)
        params2 == IF term # <<>>
                   THEN ParamsSet(params1, <<"query">>, term)
                   ELSE ParamsDelete(params1, <<"query">>)
    IN  usePathname \o <<"?">> \o ParamsToString(params2)

Idle == [active |-> FALSE, term |-> <<>>, remaining |-> 0]

\* Variant: a call made while one is pending does not start the wait over.
Debounced_noRestart(term) ==
    [active |-> TRUE, term |-> term,
     remaining |-> IF timer.active THEN timer.remaining ELSE DebounceWait]

\* useDebouncedCallback(fn, 300) called with term: the call is held and the
\* wait starts over.
Debounced(term) == [active |-> TRUE, term |-> term, remaining |-> DebounceWait]

----------------------------------------------------------------------------
(* Initial states: a page opened at some URL, nothing typed yet. *)

Pathname == "/dashboard/invoices"

InitialURLs ==
    { <<Pathname>>,
      <<Pathname, "?", "page", "=", "3">>,
      <<Pathname, "?", "sort", "=", "a", "&", "page", "=", "2", "&",
        "query", "=", "a", "+", "b">> }

Init ==
    /\ url \in InitialURLs
    /\ matched \in 0..MaxRows
    /\ input = query
    /\ timer = Idle
    /\ sinceKey = 0
    /\ burstKeys = 0
    /\ runs = 0
    /\ ranTerm = <<>>
    /\ target = currentPage
    /\ lastOp = "init"

----------------------------------------------------------------------------
(* Events *)

\* <input onChange>: handleSearch(e.target.value) through the debounce.
onChange(value) ==
    /\ value # input
    /\ timer.active => burstKeys < MaxBurst
    /\ input' = value
    /\ timer' = Debounced(value)
    /\ sinceKey' = 0
    /\ burstKeys' = IF timer.active THEN burstKeys + 1 ELSE 1
    /\ runs' = IF timer.active THEN runs ELSE 0
    /\ lastOp' = "type"
    /\ UNCHANGED <<url, matched, ranTerm, target>>

\* Time passes while a call is pending, at most up to the timer's expiry.
Elapse(d) ==
    /\ timer.active
    /\ timer.remaining > 0
    /\ LET dt == Min(d, timer.remaining)
       IN  /\ timer' = [timer EXCEPT !.remaining = @ - dt]
           /\ sinceKey' = sinceKey + dt
    /\ lastOp' = "wait"
    /\ UNCHANGED <<url, matched, input, burstKeys, runs, ranTerm, target>>

\* The timer expires: handleSearch runs with the last value and the router
\* replaces the URL; the page is rendered again for the new query.
TimerExpired ==
    /\ timer.active
    /\ timer.remaining = 0
    /\ url' = handleSearch(timer.term)
    /\ matched' \in ResultSizes
    /\ timer' = Idle
    /\ runs' = runs + 1
    /\ ranTerm' = timer.term
    /\ target' = 1
    /\ lastOp' = "search"
    /\ UNCHANGED <<input, sinceKey, burstKeys>>

\* A page number of the rendered window is followed.
ClickPageNumber(index) ==
    /\ index \in 1..Len(allPages)
    /\ allPages[index].tag = "number"
    /\ url' = createPageURL(allPages[index].val)
    /\ target' = allPages[index].val
    /\ lastOp' = "nav"
    /\ UNCHANGED <<matched, input, timer, sinceKey, burstKeys, runs, ranTerm>>

ClickPrevious ==
    /\ ~PreviousDisabled
    /\ url' = createPageURL(currentPage - 1)
    /\ target' = currentPage - 1
    /\ lastOp' = "nav"
    /\ UNCHANGED <<matched, input, timer, sinceKey, burstKeys, runs, ranTerm>>

ClickNext ==
    /\ ~NextDisabled
    /\ url' = createPageURL(currentPage + 1)
    /\ target' = currentPage + 1
    /\ lastOp' = "nav"
    /\ UNCHANGED <<matched, input, timer, sinceKey, burstKeys, runs, ranTerm>>

Next ==
    \/ \E value \in Terms : onChange(value)
    \/ \E d \in Delays : Elapse(d)
    \/ TimerExpired
    \/ \E index \in 1..7 : ClickPageNumber(index)
    \/ ClickPrevious
    \/ ClickNext

Spec == Init /\ [][Next]_vars

----------------------------------------------------------------------------
(* Properties of generatePagination *)

\* The window the four cases of the specification give, in priority order.
ReferenceWindow(cur, total) ==
    CASE total <= 7 -> [i \in 1..total |-> Num(i)]
      [] total > 7 /\ cur <= 3 ->
            <<Num(1), Num(2), Num(3), Ellipsis, Num(total - 1), Num(total)>>
      [] total > 7 /\ cur > 3 /\ cur >= total - 2 ->
            <<Num(1), Num(2), Ellipsis, Num(total - 2), Num(total - 1),
              Num(total)>>
      [] OTHER ->
            <<Num(1), Ellipsis, Num(cur - 1), Num(cur), Num(cur + 1), Ellipsis,
              Num(total)>>

ValidPage == totalPages >= 1 /\ currentPage \in 1..totalPages

\* C1: for every totalPages >= 1 and currentPage in [1, totalPages],
\* generatePagination returns the window of the four-case reference; the
\* window the Pagination component renders is that window.
C1_FourCases ==
    /\ \A cur \in 1..totalPages :
          generatePagination(cur, totalPages) = ReferenceWindow(cur, totalPages)
    /\ ValidPage => allPages = ReferenceWindow(currentPage, totalPages)

C1_Witness ==
    /\ lastOp = "nav"
    /\ totalPages = 9
    /\ currentPage = 5
    /\ allPages = <<Num(1), Ellipsis, Num(4), Num(5), Num(6), Ellipsis, Num(9)>>

\* C2: for every valid input the window is non-empty, starts with the
\* number 1 and ends with the number totalPages ([1] when totalPages = 1).
C2_Boundaries ==
    \A cur \in 1..totalPages :
        LET w == generatePagination(cur, totalPages)
        IN  /\ Len(w) >= 1
            /\ w[1] = Num(1)
            /\ w[Len(w)] = Num(totalPages)
            /\ totalPages = 1 => w = <<Num(1)>>

C2_Witness ==
    /\ ValidPage
    /\ totalPages > 7
    /\ currentPage >= totalPages - 2
    /\ allPages[1] = Num(1)
    /\ allPages[Len(allPages)] = Num(totalPages)

\* C3: for totalPages > 7 the window has exactly 6 labels when currentPage
\* <= 3 or currentPage >= totalPages - 2 and exactly 7 otherwise; no window
\* for a valid input has more than 7 labels.
C3_Length ==
    \A cur \in 1..totalPages :
        LET w == generatePagination(cur, totalPages)
        IN  /\ Len(w) <= 7
            /\ totalPages > 7 =>
                  Len(w) = IF cur <= 3 \/ cur >= totalPages - 2 THEN 6 ELSE 7

C3_Witness ==
    /\ ValidPage
    /\ totalPages > 7
    /\ currentPage > 3
    /\ currentPage < totalPages - 2
    /\ Len(allPages) = 7

\* C4: in the window for a valid input the numeric labels, read left to
\* right, are strictly increasing (hence within [1, totalPages] and without
\* duplicates) and no two ellipsis markers are adjacent.
C4_Ordered ==
    \A cur \in 1..totalPages :
        LET w == generatePagination(cur, totalPages)
        IN  /\ \A i, j \in 1..Len(w) :
                  (i < j /\ w[i].tag = "number" /\ w[j].tag = "number")
                      => w[i].val < w[j].val
            /\ \A i \in 1..Len(w) :
                  w[i].tag = "number" => w[i].val \in 1..totalPages
            /\ \A i \in 1..(Len(w) - 1) :
                  ~(w[i] = Ellipsis /\ w[i + 1] = Ellipsis)

C4_Witness ==
    /\ ValidPage
    /\ currentPage = 4
    /\ Cardinality({i \in 1..Len(allPages) : allPages[i] = Ellipsis}) = 2

\* C8: for every valid input currentPage occurs exactly once among the
\* labels, so exactly one label is rendered active.
C8_OneActive ==
    /\ \A cur \in 1..totalPages :
          LET w == generatePagination(cur, totalPages)
          IN  Cardinality({i \in 1..Len(w) : isActive(cur, w[i])}) = 1
    /\ ValidPage =>
          Cardinality({i \in 1..Len(allPages) :
                          isActive(currentPage, allPages[i])}) = 1

C8_Witness ==
    /\ ValidPage
    /\ totalPages > 7
    /\ currentPage = 3
    /\ isActive(currentPage, allPages[3])
    /\ lastOp = "nav"

----------------------------------------------------------------------------
(* Properties of the Search component *)

\* C5: whenever handleSearch fires with a term, from any URL, the URL it
\* navigates to has page = 1, has query equal to the term when the term is
\* not empty and no query parameter when it is empty, on the same pathname.
C5_SearchResetsPage ==
    [][lastOp' = "search" =>
          /\ ParamsGet(SearchParamsOf(url'), <<"page">>) = <<"1">>
          /\ CurrentPageOf(url') = 1
          /\ PathnameOf(url') = usePathname
          /\ timer.term # <<>> =>
                /\ ParamsGet(SearchParamsOf(url'), <<"query">>) = timer.term
                /\ QueryOf(url') = timer.term
          /\ timer.term = <<>> => ~ParamsHas(SearchParamsOf(url'), <<"query">>)
      ]_vars

C5_Witness ==
    /\ lastOp = "search"
    /\ currentPage = 1
    /\ ranTerm = <<"a", "&", "b", "=">>
    /\ query = ranTerm
    /\ ParamsHas(useSearchParams, <<"sort">>)

\* C6: a burst of keystrokes, each less than 300 ms after the previous one,
\* causes exactly one execution of handleSearch: none while the burst goes
\* on, one once 300 ms have passed without a keystroke, with the value of
\* the last keystroke.
C6_DebounceOnce ==
    /\ runs <= 1
    /\ timer.active => runs = 0
    /\ (~timer.active /\ burstKeys > 0) => runs = 1
    /\ lastOp = "search" =>
          /\ sinceKey >= DebounceWait
          /\ ranTerm = input
          /\ runs = 1

C6_Witness ==
    /\ lastOp = "search"
    /\ burstKeys >= 2
    /\ runs = 1
    /\ ranTerm = input
    /\ sinceKey = DebounceWait

----------------------------------------------------------------------------
(* Properties of the Pagination component *)

\* C7: createPageURL(pageNumber) gives a URL on the same pathname whose page
\* parameter is pageNumber and whose other parameters, query among them,
\* are those of the current URL; page navigation never changes the query.
C7_NavigationKeepsQuery ==
    [][lastOp' = "nav" =>
          /\ PathnameOf(url') = usePathname
          /\ ParamsGet(SearchParamsOf(url'), <<"page">>) = toString(target')
          /\ CurrentPageOf(url') = target'
          /\ ParamsDelete(SearchParamsOf(url'), <<"page">>)
                = ParamsDelete(useSearchParams, <<"page">>)
          /\ QueryOf(url') = query
      ]_vars

C7_Witness ==
    /\ lastOp = "nav"
    /\ currentPage > 2
    /\ query = <<"a", "&", "b", "=">>
    /\ ParamsGet(useSearchParams, <<"sort">>) = <<"a">>

\* C9: with totalPages fixed and currentPage within [1, totalPages], a
\* navigation by a numeric label or by an arrow that is not disabled leaves
\* currentPage within [1, totalPages].
C9_PageStaysInRange ==
    [][(lastOp' = "nav" /\ ValidPage) =>
          /\ matched' = matched
          /\ CurrentPageOf(url') \in 1..totalPages
      ]_vars

C9_Witness ==
    /\ lastOp = "nav"
    /\ totalPages > 7
    /\ currentPage = totalPages
    /\ NextDisabled
    /\ ~PreviousDisabled

----------------------------------------------------------------------------
(* Properties of the data fetching functions *)

RECURSIVE PagesUpTo(_)
PagesUpTo(p) ==
    IF p = 0 THEN <<>> ELSE PagesUpTo(p - 1) \o fetchFilteredInvoices(p)

\* C10: for N matching rows fetchInvoicesPages is ceil(N / 6); every page
\* in [1, totalPages] holds between 1 and 6 rows, the pages 1..totalPages
\* hold each of the N rows exactly once in order, and page totalPages + 1
\* holds no row.
C10_PagesCoverRows ==
    /\ fetchInvoicesPages * 6 >= matched
    /\ (fetchInvoicesPages - 1) * 6 < matched \/ (matched = 0 /\ fetchInvoicesPages = 0)
    /\ \A p \in 1..fetchInvoicesPages : Len(fetchFilteredInvoices(p)) \in 1..6
    /\ PagesUpTo(fetchInvoicesPages) = MatchingRows
    /\ fetchFilteredInvoices(fetchInvoicesPages + 1) = <<>>

C10_Witness ==
    /\ matched = 13
    /\ fetchInvoicesPages = 3
    /\ currentPage = 3
    /\ fetchFilteredInvoices(currentPage) = <<13>>
    /\ fetchFilteredInvoices(2) = <<7, 8, 9, 10, 11, 12>>

====
